---- MODULE Spec2Model ----
(***************************************************************************)
(* Model of the rune optimizer's core: the board and its scoring           *)
(* (src/models.py) and the simulated-annealing search with restarts        *)
(* (src/solver.py).                                                        *)
(*                                                                         *)
(* Python objects are modelled as heap cells addressed by references, so   *)
(* that aliasing (the same Rune reached through state.runes and through    *)
(* state.grid) and copying (copy.deepcopy, Rune(...), Stone(...)) are      *)
(* visible.  A reference is <<owner, tag, index>>: owner 0 is the caller,  *)
(* owner k >= 1 is restart k; tag "list" is an object of the runes/stones  *)
(* lists, tag "copy" is an object made by copy.deepcopy of a grid.         *)
(*                                                                         *)
(* Scores are floats in the code; the model holds the exact value          *)
(* multiplied by 2 * max_possible_level, which is an integer.              *)
(***************************************************************************)
EXTENDS Integers, Sequences, FiniteSets, TLC

VARIABLES
    pc,                   \* position of the driver
    cfg,                  \* SolverConfig: iterations, num_restarts
    rheap,                \* Rune objects: ref -> [id, max_level, current_level, raw_score]
    sheap,                \* Stone objects: ref -> [id, base_vectors, rotation]
    current_state,        \* solve_layout: BoardState [grid, runes, stones]
    current_score,        \* solve_layout
    best_state_grid,      \* solve_layout: deep copy of the best grid
    best_stone_rotations, \* solve_layout: id -> rotation
    best_score,           \* solve_layout
    i,                    \* solve_layout: loop iterations consumed
    restart,              \* solve_with_restarts: restarts completed
    cooled,               \* solve_layout: times the cooling lines 135-137 ran
    args,                 \* solve_layout: the runes and stones lists it was given
    layout_ret,           \* the pair solve_layout returned last
    best_overall_state,   \* solve_with_restarts
    best_overall_score,   \* solve_with_restarts
    hist                  \* history: what the last step did, scores seen

vars == <<pc, cfg, rheap, sheap, current_state, current_score, best_state_grid,
          best_stone_rotations, best_score, i, cooled, args, restart, layout_ret,
          best_overall_state, best_overall_score, hist>>

-----------------------------------------------------------------------------
(* Bounds and inputs *)

GRID_SIZE == 4

\* The random source draws grid cells among the first MaxCell entries of the
\* positions list [(x, y) for x in range(4) for y in range(4)].
MaxCell == 4

\* iterations is drawn from -1..MaxIter, num_restarts from 0..MaxRestarts,
\* with at most MaxIter loop iterations over all restarts of one run.
MaxIter == 2

MaxRestarts == 2

None == "None"

Min(a, b) == IF a < b THEN a ELSE b

Max(a, b) == IF a > b THEN a ELSE b

Range(s) == {s[n] : n \in DOMAIN s}

RECURSIVE SumOver(_, _)
SumOver(S, f) ==
    IF S = {} THEN 0
    ELSE LET x == CHOOSE y \in S : TRUE IN f[x] + SumOver(S \ {x}, f)

\* The caller's runes (id, max_level) and stones (id, base vectors (dx, dy, boost)).
InputRunes == << [id |-> "R1", max_level |-> 4], [id |-> "R2", max_level |-> 2] >>

InputStones == << [id |-> "K1", base_vectors |-> << <<1, 0, 2>>, <<-1, 0, 1>> >>] >>

\* The rotation the caller's stones carry when the driver is called.
CallerRotations == {3}

Configs ==
    {c \in [iterations : -1..MaxIter, num_restarts : 0..MaxRestarts] :
        c.iterations * c.num_restarts <= MaxIter}

-----------------------------------------------------------------------------
(* Entity model: src/models.py *)

\* Rune(id, max_level): current_level and raw_score default to 0.
Rune(id, max_level) ==
    [id |-> id, max_level |-> max_level, current_level |-> 0, raw_score |-> 0]

\* Stone(id, vectors): rotation starts at 0.
Stone(id, vectors) == [id |-> id, base_vectors |-> vectors, rotation |-> 0]

\* A grid occupant: the class isinstance() sees, and the object referred to.
RuneItem(ref) == [kind |-> "Rune", ref |-> ref]

StoneItem(ref) == [kind |-> "Stone", ref |-> ref]

\* What dict.get returns for an absent key.
NoItem == [kind |-> None, ref |-> <<0, None, 0>>]

GridGet(grid, p) == IF p \in DOMAIN grid THEN grid[p] ELSE NoItem

\* RotateCW with the loop of line 49 run at most once.
RotateOnce(dx, dy, steps) == IF steps <= 0 THEN <<dx, dy>> ELSE <<dy, -dx>>

\* (dx, dy) -> (dy, -dx), applied `steps` times.
RECURSIVE RotateCW(_, _, _)
RotateCW(dx, dy, steps) ==
    IF steps <= 0 THEN <<dx, dy>> ELSE RotateCW(dy, -dx, steps - 1)

\* Stone.get_active_vectors, for the stone object `stone`.
get_active_vectors(stone) ==
    [n \in DOMAIN stone.base_vectors |->
        LET v == stone.base_vectors[n]
            d == RotateCW(v[1], v[2], stone.rotation)
        IN  <<d[1], d[2], v[3]>>]

rune_positions(grid) == {p \in DOMAIN grid : grid[p].kind = "Rune"}

stone_positions(grid) == {p \in DOMAIN grid : grid[p].kind = "Stone"}

\* Lines 88-94: one record per (stone position, active vector) whose target
\* cell holds a rune: the pair, the rune object hit and the boost.
Hits(grid, sh) ==
    LET runes_at == rune_positions(grid)
        shots == UNION {LET vs == get_active_vectors(sh[grid[p].ref])
                        IN  {[from |-> p, n |-> n,
                              to |-> <<p[1] + vs[n][1], p[2] + vs[n][2]>>,
                              boost |-> vs[n][3]] : n \in DOMAIN vs} :
                        p \in stone_positions(grid)}
    IN  {h \in shots : h.to \in runes_at}

\* The boost the hits add to the rune object `ref`.
BoostTo(grid, hits, ref) ==
    LET mine == {h \in hits : grid[h.to].ref = ref}
    IN  SumOver(mine, [h \in mine |-> h.boost])

\* max((r.max_level for r in self.runes), default=1)
RECURSIVE MaxLevelOf(_, _, _)
MaxLevelOf(runes, rh, n) ==
    IF n = 1 THEN rh[runes[1]].max_level
    ELSE Max(rh[runes[n]].max_level, MaxLevelOf(runes, rh, n - 1))

max_possible_level(runes, rh) ==
    IF Len(runes) = 0 THEN 1 ELSE MaxLevelOf(runes, rh, Len(runes))

\* The factor the model's scores carry: score held = Scale * score.
Scale(runes, rh) == 2 * max_possible_level(runes, rh)

\* Lines 74-94: raw_score of every rune object after the reset and the boosts.
\* Only the objects of self.runes are reset; the boosts go to the objects the
\* grid holds.
RawAfter(state, rh, sh) ==
    LET hits == Hits(state.grid, sh)
        listed == Range(state.runes)
    IN  [ref \in DOMAIN rh |->
            (IF ref \in listed THEN 0 ELSE rh[ref].raw_score)
            + BoostTo(state.grid, hits, ref)]

\* HeapAfterScore without the cap of line 102: the level is the raw score.
HeapAfterScoreUncapped(state, rh, sh) ==
    LET raw == RawAfter(state, rh, sh)
        listed == Range(state.runes)
    IN  [ref \in DOMAIN rh |->
            IF ref \in listed
            THEN [rh[ref] EXCEPT !.raw_score = raw[ref], !.current_level = raw[ref]]
            ELSE [rh[ref] EXCEPT !.raw_score = raw[ref]]]

\* Lines 101-103: current_level is written on the objects of self.runes.
HeapAfterScore(state, rh, sh) ==
    LET raw == RawAfter(state, rh, sh)
        listed == Range(state.runes)
    IN  [ref \in DOMAIN rh |->
            IF ref \in listed
            THEN [rh[ref] EXCEPT !.raw_score = raw[ref],
                                 !.current_level = Min(raw[ref], rh[ref].max_level)]
            ELSE [rh[ref] EXCEPT !.raw_score = raw[ref]]]

\* RuneScore with the even-level bonus given to level 0 too (line 119 without
\* `final > 0`).
RuneScoreEvenZero(r, maxp) ==
    LET final == r.current_level
    IN  2 * maxp * final
        + (IF r.max_level > 0 /\ maxp > 0 THEN final * r.max_level ELSE 0)
        + (IF final % 2 = 0 THEN maxp ELSE 0)

\* Lines 106-120: one rune's share of the score, times 2 * max_possible:
\* final + final * (max_level / max_possible) * 0.5 + (0.5 if final is even, > 0).
RuneScore(r, maxp) ==
    LET final == r.current_level
    IN  2 * maxp * final
        + (IF r.max_level > 0 /\ maxp > 0 THEN final * r.max_level ELSE 0)
        + (IF final > 0 /\ final % 2 = 0 THEN maxp ELSE 0)

RECURSIVE TotalScore(_, _, _, _)
TotalScore(runes, rh, maxp, n) ==
    IF n = 0 THEN 0
    ELSE RuneScore(rh[runes[n]], maxp) + TotalScore(runes, rh, maxp, n - 1)

\* BoardState.calculate_total_score: the rune heap it leaves and the score
\* (times Scale) it returns.
calculate_total_score(state, rh, sh) ==
    LET after == HeapAfterScore(state, rh, sh)
    IN  [rheap |-> after,
         score |-> TotalScore(state.runes, after,
                              max_possible_level(state.runes, rh), Len(state.runes))]

\* BoardState.get_integer_score: int(self.calculate_total_score()).
get_integer_score(state, rh, sh) ==
    calculate_total_score(state, rh, sh).score \div Scale(state.runes, rh)

-----------------------------------------------------------------------------
(* Initial placement and mutation: src/solver.py *)

\* positions = [(x, y) for x in range(GRID_SIZE) for y in range(GRID_SIZE)]
Positions == [k \in 1..(GRID_SIZE * GRID_SIZE) |-> <<(k - 1) \div GRID_SIZE, (k - 1) % GRID_SIZE>>]

\* The cells random.randint(0, GRID_SIZE - 1) pairs are drawn from.
DrawCells == {Positions[k] : k \in 1..Min(MaxCell, GRID_SIZE * GRID_SIZE)}

\* An outcome of random.shuffle(positions): the cells `prefix` names come
\* first, the others follow in their original order.
Shuffled(prefix) ==
    [n \in 1..Len(prefix) |-> Positions[prefix[n]]]
    \o SelectSeq(Positions, LAMBDA c : \A n \in DOMAIN prefix : Positions[prefix[n]] # c)

\* The shuffles the initial placement draws from.
Shuffles == {Shuffled(<<2, 5, 1>>), Shuffled(<<1, 3, 4>>)}

EmptyGrid == [q \in {} |-> NoItem]

GridSet(grid, p, v) == [q \in DOMAIN grid \cup {p} |-> IF q = p THEN v ELSE grid[q]]

GridDel(grid, p) == [q \in DOMAIN grid \ {p} |-> grid[q]]

\* HasCell with the last position never used.
HasCellButLast(n, positions) == n < Len(positions)

\* Line 38: i < len(positions), for the item counted from 1.
HasCell(n, positions) == n <= Len(positions)

\* _create_initial_state: item n of runes + stones goes to positions[n] while
\* positions last; a placed stone n gets the rotation rots[n].
create_initial_state(runes, stones, sh, positions, rots) ==
    LET nr == Len(runes)
        placed == {n \in 1..(nr + Len(stones)) : HasCell(n, positions)}
        cell(n) == positions[n]
    IN  [state |->
            [grid |-> [q \in {cell(n) : n \in placed} |->
                        LET n == CHOOSE m \in placed : cell(m) = q
                        IN  IF n <= nr THEN RuneItem(runes[n])
                            ELSE StoneItem(stones[n - nr])],
             runes |-> runes, stones |-> stones],
         sheap |->
            [ref \in DOMAIN sh |->
                IF \E n \in placed : n > nr /\ stones[n - nr] = ref
                THEN [sh[ref] EXCEPT !.rotation =
                        rots[CHOOSE m \in 1..Len(stones) :
                                stones[m] = ref /\ m + nr \in placed
                                /\ \A m2 \in 1..Len(stones) :
                                    (stones[m2] = ref /\ m2 + nr \in placed) => m2 <= m]]
                ELSE sh[ref]]]

\* What one call of _mutate_in_place draws: whether rand_val is below
\* rotation_probability, the stone random.choice picks, and the two distinct
\* cells of the swap branch.
MutationDraws(state) ==
    LET c1 == Positions[1]
        c2 == Positions[2]
    IN  {[rotate |-> TRUE, stone |-> j, p1 |-> c1, p2 |-> c2] :
            j \in 1..Max(1, Len(state.stones))}
        \cup {[rotate |-> FALSE, stone |-> 1, p1 |-> d[1], p2 |-> d[2]] :
                d \in {e \in DrawCells \X DrawCells : e[1] # e[2]}}

\* ApplySwap without the deletions of lines 74 and 77.
ApplySwapNoDelete(grid, p1, p2, v1, v2) ==
    LET g1 == IF v1 # NoItem THEN GridSet(grid, p2, v1) ELSE grid
    IN  IF v2 # NoItem THEN GridSet(g1, p1, v2) ELSE g1

\* Lines 72-77: the swap or move of the occupants of p1 and p2.
ApplySwap(grid, p1, p2, v1, v2) ==
    LET g1 == IF v1 # NoItem THEN GridSet(grid, p2, v1) ELSE GridDel(grid, p2)
    IN  IF v2 # NoItem THEN GridSet(g1, p1, v2) ELSE GridDel(g1, p1)

\* IsNoOp with `or` for `and`: one empty cell is enough.
IsNoOpEither(v1, v2) == v1 = NoItem \/ v2 = NoItem

\* Line 69: v1 is None and v2 is None.
IsNoOp(v1, v2) == v1 = NoItem /\ v2 = NoItem

\* _mutate_in_place: the grid and stone heap it leaves, and the undo tuple.
mutate_in_place(state, sh, d) ==
    IF d.rotate /\ Len(state.stones) > 0
    THEN LET stone == state.stones[d.stone]
         IN  [grid |-> state.grid,
              sheap |-> [sh EXCEPT ![stone].rotation = (sh[stone].rotation + 1) % 4],
              undo |-> [mtype |-> "rotate", p1 |-> stone, p2 |-> sh[stone].rotation,
                        v1 |-> NoItem, v2 |-> NoItem]]
    ELSE LET v1 == GridGet(state.grid, d.p1)
             v2 == GridGet(state.grid, d.p2)
         IN  IF IsNoOp(v1, v2)
             THEN [grid |-> state.grid, sheap |-> sh,
                   undo |-> [mtype |-> "none", p1 |-> None, p2 |-> None,
                             v1 |-> NoItem, v2 |-> NoItem]]
             ELSE [grid |-> ApplySwap(state.grid, d.p1, d.p2, v1, v2), sheap |-> sh,
                   undo |-> [mtype |-> "swap", p1 |-> d.p1, p2 |-> d.p2,
                             v1 |-> v1, v2 |-> v2]]

\* revert_mutation with the old occupants put back at the wrong cells.
revert_mutation_crossed(grid, sh, undo) ==
    IF undo.mtype = "rotate"
    THEN [grid |-> grid, sheap |-> [sh EXCEPT ![undo.p1].rotation = undo.p2]]
    ELSE IF undo.mtype = "swap"
    THEN LET g1 == IF undo.v1 # NoItem THEN GridSet(grid, undo.p2, undo.v1)
                   ELSE GridDel(grid, undo.p2)
         IN  [grid |-> IF undo.v2 # NoItem THEN GridSet(g1, undo.p1, undo.v2)
                       ELSE GridDel(g1, undo.p1),
              sheap |-> sh]
    ELSE [grid |-> grid, sheap |-> sh]

\* revert_mutation left out: the rejected mutation stays on the board.
revert_mutation_none(grid, sh, undo) == [grid |-> grid, sheap |-> sh]

\* _revert_mutation: the grid and stone heap it leaves.
revert_mutation(grid, sh, undo) ==
    IF undo.mtype = "rotate"
    THEN [grid |-> grid, sheap |-> [sh EXCEPT ![undo.p1].rotation = undo.p2]]
    ELSE IF undo.mtype = "swap"
    THEN LET g1 == IF undo.v1 # NoItem THEN GridSet(grid, undo.p1, undo.v1)
                   ELSE GridDel(grid, undo.p1)
         IN  [grid |-> IF undo.v2 # NoItem THEN GridSet(g1, undo.p2, undo.v2)
                       ELSE GridDel(g1, undo.p2),
              sheap |-> sh]
    ELSE [grid |-> grid, sheap |-> sh]

-----------------------------------------------------------------------------
(* The search and the restart driver: src/solver.py *)

Extend(h, new) ==
    [ref \in DOMAIN h \cup DOMAIN new |-> IF ref \in DOMAIN new THEN new[ref] ELSE h[ref]]

CallerRunes == [n \in 1..Len(InputRunes) |-> <<0, "list", n>>]

CallerStones == [n \in 1..Len(InputStones) |-> <<0, "list", n>>]

\* runes_copy without the copying: the caller's objects are handed on.
runes_copy_shared(rh, runes, k) == [refs |-> runes, heap |-> rh]

\* runes_copy = [Rune(r.id, r.max_level) for r in runes], made by restart k.
runes_copy(rh, runes, k) ==
    [refs |-> [n \in 1..Len(runes) |-> <<k, "list", n>>],
     heap |-> Extend(rh, [ref \in {<<k, "list", n>> : n \in 1..Len(runes)} |->
                            Rune(rh[runes[ref[3]]].id, rh[runes[ref[3]]].max_level)])]

\* stones_copy = [Stone(s.id, list(s.base_vectors)) for s in stones]
stones_copy(sh, stones, k) ==
    [refs |-> [n \in 1..Len(stones) |-> <<k, "list", n>>],
     heap |-> Extend(sh, [ref \in {<<k, "list", n>> : n \in 1..Len(stones)} |->
                            Stone(sh[stones[ref[3]]].id, sh[stones[ref[3]]].base_vectors)])]

\* copy.deepcopy(grid), made during restart k: every occupant is a new object
\* with the field values of the original.
CopyRef(item, k) == <<k, "copy", item.ref[3]>>

\* deepcopy_grid as a shallow copy: the snapshot keeps the grid's own objects.
deepcopy_grid_shared(grid, rh, sh, k) == [grid |-> grid, rheap |-> rh, sheap |-> sh]

deepcopy_grid(grid, rh, sh, k) ==
    [grid |-> [p \in DOMAIN grid |-> [kind |-> grid[p].kind, ref |-> CopyRef(grid[p], k)]],
     rheap |-> Extend(rh, [ref \in {CopyRef(grid[p], k) : p \in rune_positions(grid)} |->
                            rh[grid[CHOOSE p \in rune_positions(grid) :
                                        CopyRef(grid[p], k) = ref].ref]]),
     sheap |-> Extend(sh, [ref \in {CopyRef(grid[p], k) : p \in stone_positions(grid)} |->
                            sh[grid[CHOOSE p \in stone_positions(grid) :
                                        CopyRef(grid[p], k) = ref].ref]])]

\* {s.id: s.rotation for s in stones}
stone_rotations(stones, sh) ==
    [id \in {sh[stones[n]].id : n \in DOMAIN stones} |->
        sh[stones[CHOOSE n \in DOMAIN stones :
                    sh[stones[n]].id = id
                    /\ \A m \in DOMAIN stones : sh[stones[m]].id = id => m <= n]].rotation]

\* The objects a kept BoardState and the caller's lists still reach.
LiveRunes(kept) ==
    Range(CallerRunes)
    \cup UNION {Range(st.runes) \cup {st.grid[p].ref : p \in rune_positions(st.grid)} :
                st \in Range(kept)}

LiveStones(kept) ==
    Range(CallerStones)
    \cup UNION {Range(st.stones) \cup {st.grid[p].ref : p \in stone_positions(st.grid)} :
                st \in Range(kept)}

Restrict(h, S) == [ref \in DOMAIN h \cap S |-> h[ref]]

NoState == [grid |-> EmptyGrid, runes |-> <<>>, stones |-> <<>>]

NoHist ==
    [outcome |-> "start", mtype |-> None, move |-> FALSE, acc_max |-> 0,
     scores |-> <<>>, reported |-> 0]

Init ==
    /\ pc = "restarts"
    /\ cfg \in Configs
    /\ rheap = [ref \in Range(CallerRunes) |->
                    Rune(InputRunes[ref[3]].id, InputRunes[ref[3]].max_level)]
    /\ \E rot \in CallerRotations :
        sheap = [ref \in Range(CallerStones) |->
                    [Stone(InputStones[ref[3]].id, InputStones[ref[3]].base_vectors)
                        EXCEPT !.rotation = rot]]
    /\ current_state = NoState
    /\ current_score = 0
    /\ best_state_grid = EmptyGrid
    /\ best_stone_rotations = <<>>
    /\ best_score = 0
    /\ i = 0
    /\ cooled = 0
    /\ args = [runes |-> <<>>, stones |-> <<>>]
    /\ restart = 0
    /\ layout_ret = <<>>
    /\ best_overall_state = <<>>
    \* best_overall_score = -1.0
    /\ best_overall_score = -1 * Scale(CallerRunes, rheap)
    /\ hist = NoHist

\* solve_with_restarts lines 169-174: the loop takes its next restart, copies
\* the entities and calls solve_layout with the copies.
CopyEntities ==
    /\ pc = "restarts"
    /\ restart < cfg.num_restarts
    /\ LET rc == runes_copy(rheap, CallerRunes, restart + 1)
           sc == stones_copy(sheap, CallerStones, restart + 1)
       IN  /\ rheap' = rc.heap
           /\ sheap' = sc.heap
           /\ args' = [runes |-> rc.refs, stones |-> sc.refs]
    /\ pc' = "solve"
    /\ hist' = [hist EXCEPT !.outcome = "copy"]
    /\ UNCHANGED <<cfg, current_state, current_score, best_state_grid,
                   best_stone_rotations, best_score, i, cooled, restart, layout_ret,
                   best_overall_state, best_overall_score>>

\* solve_layout lines 103-110: the initial placement, its score, the first
\* snapshot.
InitialState ==
    /\ pc = "solve"
    /\ \E positions \in Shuffles, rots \in [1..Len(args.stones) -> 0..3] :
        LET made == create_initial_state(args.runes, args.stones, sheap, positions, rots)
            res == calculate_total_score(made.state, rheap, made.sheap)
            snap == deepcopy_grid(made.state.grid, res.rheap, made.sheap, restart + 1)
        IN  /\ current_state' = made.state
            /\ current_score' = res.score
            /\ best_state_grid' = snap.grid
            /\ rheap' = snap.rheap
            /\ sheap' = snap.sheap
            /\ best_stone_rotations' = stone_rotations(args.stones, made.sheap)
            /\ best_score' = res.score
            /\ hist' = [hist EXCEPT !.outcome = "init", !.acc_max = res.score]
    /\ i' = 0
    /\ cooled' = 0
    /\ pc' = "search"
    /\ UNCHANGED <<cfg, args, restart, layout_ret, best_overall_state, best_overall_score>>

\* Lines 118-123: the values `accept` can take.  A greater score is accepted;
\* for delta = 0 math.exp gives 1.0 and random.random(), below 1.0, accepts;
\* for delta < 0 the draw decides.
AcceptDraws(new_score, old_score) ==
    IF new_score >= old_score THEN {TRUE} ELSE BOOLEAN

\* IsNewBest without the comparison: every accepted score becomes the best.
IsNewBestAlways(score, best) == TRUE

\* Line 127: an accepted score becomes the best one when it is greater.
IsNewBest(score, best) == score > best

\* IsBetterRestart with >= for >: a tie replaces the kept pair.
IsBetterRestartOrEqual(score, best_overall) == score >= best_overall

\* Line 175: a restart's pair replaces the kept pair when its score is greater.
IsBetterRestart(score, best_overall) == score > best_overall

\* range_exhausted with one iteration fewer: range(iterations - 1).
range_exhausted_early(n, iterations) == n >= iterations - 1

\* Line 112: `for i in range(config.iterations)` has no next value once n
\* iterations have run (at once when iterations <= 0).
range_exhausted(n, iterations) == n >= iterations

\* solve_layout lines 112-137: one iteration of the loop.
Iterate ==
    /\ pc = "search"
    /\ ~range_exhausted(i, cfg.iterations)
    /\ \E d \in MutationDraws(current_state) :
        LET m == mutate_in_place(current_state, sheap, d)
            mutated == [current_state EXCEPT !.grid = m.grid]
            res == calculate_total_score(mutated, rheap, m.sheap)
            new_score == res.score
            pre == [hist EXCEPT !.mtype = m.undo.mtype,
                                !.move = (m.undo.mtype = "swap"
                                          /\ NoItem \in {m.undo.v1, m.undo.v2})]
        IN  IF m.undo.mtype = "none"
            THEN \* continue
                 /\ hist' = [pre EXCEPT !.outcome = "none"]
                 /\ UNCHANGED <<current_state, current_score, rheap, sheap,
                                best_state_grid, best_stone_rotations, best_score, cooled>>
            ELSE \E accept \in AcceptDraws(new_score, current_score) :
            IF accept
            THEN /\ current_state' = mutated
                 /\ current_score' = new_score
                 /\ IF IsNewBest(new_score, best_score)
                    THEN LET snap == deepcopy_grid(m.grid, res.rheap, m.sheap, restart + 1)
                         IN  /\ best_score' = new_score
                             /\ best_state_grid' = snap.grid
                             /\ rheap' = snap.rheap
                             /\ sheap' = snap.sheap
                             /\ best_stone_rotations' =
                                    stone_rotations(current_state.stones, m.sheap)
                    ELSE /\ rheap' = res.rheap
                         /\ sheap' = m.sheap
                         /\ UNCHANGED <<best_score, best_state_grid, best_stone_rotations>>
                 /\ cooled' = cooled + 1
                 /\ hist' = [pre EXCEPT !.outcome = "accept",
                                        !.acc_max = Max(hist.acc_max, new_score)]
            ELSE LET back == revert_mutation(m.grid, m.sheap, m.undo)
                 IN  /\ current_state' = [current_state EXCEPT !.grid = back.grid]
                     /\ rheap' = res.rheap
                     /\ sheap' = back.sheap
                     /\ cooled' = cooled + 1
                     /\ hist' = [pre EXCEPT !.outcome = "reject"]
                     /\ UNCHANGED <<current_score, best_score, best_state_grid,
                                    best_stone_rotations>>
    /\ i' = i + 1
    /\ UNCHANGED <<pc, cfg, args, restart, layout_ret, best_overall_state,
                   best_overall_score>>

\* solve_layout lines 139-144: range(iterations) is exhausted (at once when
\* iterations <= 0); the best grid is wrapped and the stones get the best
\* rotations.
SolveReturn ==
    /\ pc = "search"
    /\ range_exhausted(i, cfg.iterations)
    /\ sheap' = [ref \in DOMAIN sheap |->
                    IF ref \in Range(args.stones)
                    THEN [sheap[ref] EXCEPT !.rotation = best_stone_rotations[sheap[ref].id]]
                    ELSE sheap[ref]]
    /\ layout_ret' = <<[state |-> [grid |-> best_state_grid, runes |-> args.runes,
                                   stones |-> args.stones],
                        score |-> best_score]>>
    /\ pc' = "fold"
    /\ hist' = [hist EXCEPT !.outcome = "return", !.scores = Append(hist.scores, best_score)]
    /\ UNCHANGED <<cfg, rheap, current_state, current_score, best_state_grid,
                   best_stone_rotations, best_score, i, cooled, args, restart,
                   best_overall_state, best_overall_score>>

\* solve_with_restarts lines 174-177: the returned pair replaces the kept one
\* when its score is greater.  Objects nothing refers to any more are dropped.
Fold ==
    /\ pc = "fold"
    /\ LET state == layout_ret[1].state
           score == layout_ret[1].score
           better == IsBetterRestart(score, best_overall_score)
           kept == IF better THEN <<state>> ELSE best_overall_state
       IN  /\ best_overall_state' = kept
           /\ best_overall_score' = IF better THEN score ELSE best_overall_score
           /\ rheap' = Restrict(rheap, LiveRunes(kept))
           /\ sheap' = Restrict(sheap, LiveStones(kept))
    /\ restart' = restart + 1
    /\ pc' = "restarts"
    /\ current_state' = NoState
    /\ current_score' = 0
    /\ best_state_grid' = EmptyGrid
    /\ best_stone_rotations' = <<>>
    /\ best_score' = 0
    /\ i' = 0
    /\ cooled' = 0
    /\ args' = [runes |-> <<>>, stones |-> <<>>]
    /\ hist' = [hist EXCEPT !.outcome = "fold", !.mtype = None, !.move = FALSE,
                            !.acc_max = 0]
    /\ UNCHANGED <<cfg, layout_ret>>

\* solve_with_restarts lines 179-180: range(num_restarts) is exhausted (at
\* once when num_restarts <= 0); the assert, then the return.
Return ==
    /\ pc = "restarts"
    /\ restart >= cfg.num_restarts
    /\ pc' = IF best_overall_state = <<>> THEN "AssertionError" ELSE "returned"
    /\ hist' = [hist EXCEPT !.outcome = "done"]
    /\ UNCHANGED <<cfg, rheap, sheap, current_state, current_score, best_state_grid,
                   best_stone_rotations, best_score, i, cooled, args, restart,
                   layout_ret, best_overall_state, best_overall_score>>

\* The caller scores the returned state again (visualization.print_board line
\* 15, tests/test_solver.py line 86).
Report ==
    /\ pc = "returned"
    /\ LET res == calculate_total_score(best_overall_state[1], rheap, sheap)
       IN  /\ rheap' = res.rheap
           /\ hist' = [hist EXCEPT !.outcome = "report", !.reported = res.score]
    /\ pc' = "reported"
    /\ UNCHANGED <<cfg, sheap, current_state, current_score, best_state_grid,
                   best_stone_rotations, best_score, i, cooled, args, restart,
                   layout_ret, best_overall_state, best_overall_score>>

Next ==
    \/ CopyEntities
    \/ InitialState
    \/ Iterate
    \/ SolveReturn
    \/ Fold
    \/ Return
    \/ Report

Spec == Init /\ [][Next]_vars

-----------------------------------------------------------------------------
(* Boards built directly, as src/tests/test_models.py builds them: the
   entities are constructed, some are put on the grid, and the board is scored
   and its stones are turned in any order. *)

\* The cells the boards use: the first MaxBoardCell entries of the positions list.
MaxBoardCell == 3

\* The rotate mutation is applied to each stone at most MaxTurns times.
MaxTurns == 4

BoardCells == {Positions[k] : k \in 1..Min(MaxBoardCell, GRID_SIZE * GRID_SIZE)}

BoardRunes == << [id |-> "R1", max_level |-> 3], [id |-> "R2", max_level |-> 1] >>

BoardStones ==
    << [id |-> "K1", base_vectors |-> << <<1, 0, 2>>, <<0, 1, 1>> >>],
       [id |-> "K2", base_vectors |-> << <<0, 1, 2>> >>] >>

ListRefs(items) == [n \in 1..Len(items) |-> <<0, "list", n>>]

\* Every way to put some of the entities on distinct cells.
BoardGrids(runes, stones) ==
    LET items == {RuneItem(runes[n]) : n \in DOMAIN runes}
                 \cup {StoneItem(stones[n]) : n \in DOMAIN stones}
    IN  UNION {{g \in [C -> items] : \A p, q \in C : p # q => g[p] # g[q]} :
               C \in SUBSET BoardCells}

BoardHist(outcome, turns, start, reported) ==
    [outcome |-> outcome, turns |-> turns, start |-> start, reported |-> reported]

\* The variables of the search and of the restart driver, at rest.
SearchIdle ==
    /\ cfg = [iterations |-> 0, num_restarts |-> 0]
    /\ current_score = 0
    /\ best_state_grid = EmptyGrid
    /\ best_stone_rotations = <<>>
    /\ best_score = 0
    /\ i = 0
    /\ cooled = 0
    /\ args = [runes |-> <<>>, stones |-> <<>>]
    /\ restart = 0
    /\ layout_ret = <<>>
    /\ best_overall_state = <<>>
    /\ best_overall_score = 0

SearchVars ==
    <<cfg, current_score, best_state_grid, best_stone_rotations, best_score, i, cooled,
      args, restart, layout_ret, best_overall_state, best_overall_score>>

\* Rune(...), Stone(...) and BoardState(runes=..., stones=...) are constructed
\* and some entities are put on the grid.
InitBoard ==
    /\ pc = "board"
    /\ \E rs \in {<<>>, BoardRunes}, ss \in {<<>>, BoardStones} :
        /\ rheap = [ref \in Range(ListRefs(rs)) |->
                        Rune(rs[ref[3]].id, rs[ref[3]].max_level)]
        /\ sheap = [ref \in Range(ListRefs(ss)) |->
                        Stone(ss[ref[3]].id, ss[ref[3]].base_vectors)]
        /\ \E g \in BoardGrids(ListRefs(rs), ListRefs(ss)) :
            current_state = [grid |-> g, runes |-> ListRefs(rs), stones |-> ListRefs(ss)]
    /\ hist = BoardHist("make", [n \in DOMAIN current_state.stones |-> 0],
                        [n \in DOMAIN current_state.stones |->
                            get_active_vectors(sheap[current_state.stones[n]])], 0)
    /\ SearchIdle

\* state.calculate_total_score()
BoardScore ==
    /\ pc = "board"
    /\ LET res == calculate_total_score(current_state, rheap, sheap)
       IN  /\ rheap' = res.rheap
           /\ hist' = [hist EXCEPT !.outcome = "score", !.reported = res.score]
    /\ UNCHANGED <<pc, sheap, current_state, SearchVars>>

\* The rotate branch of _mutate_in_place (lines 55-58) on one stone of the board.
BoardRotate ==
    /\ pc = "board"
    /\ \E d \in {e \in MutationDraws(current_state) : e.rotate} :
        /\ Len(current_state.stones) > 0
        /\ hist.turns[d.stone] < MaxTurns
        /\ sheap' = mutate_in_place(current_state, sheap, d).sheap
        /\ hist' = [hist EXCEPT !.outcome = "rotate",
                                !.turns[d.stone] = hist.turns[d.stone] + 1]
    /\ UNCHANGED <<pc, rheap, current_state, SearchVars>>

NextBoard ==
    \/ BoardScore
    \/ BoardRotate

SpecBoard == InitBoard /\ [][NextBoard]_vars

-----------------------------------------------------------------------------
(* Parsing: src/rune_parser.py.  A string is a sequence of one-character
   strings. *)

IsSpace(c) == c \in {" ", "\t", "\n"}

IsDigit(c) == c \in {"0", "1", "2", "3", "4", "5", "6", "7", "8", "9"}

DigitValue(c) ==
    CASE c = "0" -> 0 [] c = "1" -> 1 [] c = "2" -> 2 [] c = "3" -> 3 [] c = "4" -> 4
      [] c = "5" -> 5 [] c = "6" -> 6 [] c = "7" -> 7 [] c = "8" -> 8 [] c = "9" -> 9

\* The character at index k, "" past the end.
CharAt(s, k) == IF k \in 1..Len(s) THEN s[k] ELSE ""

\* \s* from index k: the index of the first character that is not a space.
RECURSIVE SkipSpaces(_, _)
SkipSpaces(s, k) == IF IsSpace(CharAt(s, k)) THEN SkipSpaces(s, k + 1) ELSE k

\* \d* from index k.
RECURSIVE SkipDigits(_, _)
SkipDigits(s, k) == IF IsDigit(CharAt(s, k)) THEN SkipDigits(s, k + 1) ELSE k

\* int() of the digits s[a .. b-1].
RECURSIVE IntOf(_, _, _)
IntOf(s, a, b) == IF b <= a THEN 0 ELSE 10 * IntOf(s, a, b - 1) + DigitValue(s[b - 1])

\* (-?\d+) or (\d+) at index k: whether it matches, where it ends, its value.
Number(s, k, signed) ==
    LET neg == signed /\ CharAt(s, k) = "-"
        a == IF neg THEN k + 1 ELSE k
        e == SkipDigits(s, a)
    IN  [ok |-> e > a, next |-> e,
         val |-> IF neg THEN 0 - IntOf(s, a, e) ELSE IntOf(s, a, e)]

\* The pattern of line 85, \(\s*(-?\d+)\s*,\s*(-?\d+)\s*,\s*(\d+)\s*\), at index k.
TripleAt(s, k) ==
    LET n1 == Number(s, SkipSpaces(s, k + 1), TRUE)
        c1 == SkipSpaces(s, n1.next)
        n2 == Number(s, SkipSpaces(s, c1 + 1), TRUE)
        c2 == SkipSpaces(s, n2.next)
        n3 == Number(s, SkipSpaces(s, c2 + 1), FALSE)
        e == SkipSpaces(s, n3.next)
    IN  [ok |-> /\ CharAt(s, k) = "("
                /\ n1.ok /\ CharAt(s, c1) = ","
                /\ n2.ok /\ CharAt(s, c2) = ","
                /\ n3.ok /\ CharAt(s, e) = ")",
         next |-> e + 1,
         vec |-> <<n1.val, n2.val, n3.val>>]

\* re.findall from index k: the matches from left to right, not overlapping,
\* each as StoneVector(int(dx), int(dy), int(boost)).
RECURSIVE FindAll(_, _)
FindAll(s, k) ==
    IF k > Len(s) THEN <<>>
    ELSE LET t == TripleAt(s, k)
         IN  IF t.ok THEN <<t.vec>> \o FindAll(s, t.next) ELSE FindAll(s, k + 1)

\* The loop of lines 45-59 from character k on.
RECURSIVE SplitFrom(_, _, _, _, _)
SplitFrom(s, k, paren_depth, current_chunk, chunks) ==
    IF k > Len(s)
    THEN IF current_chunk # <<>> THEN Append(chunks, current_chunk) ELSE chunks
    ELSE IF s[k] = "("
    THEN SplitFrom(s, k + 1, paren_depth + 1, Append(current_chunk, s[k]), chunks)
    ELSE IF s[k] = ")"
    THEN SplitFrom(s, k + 1, paren_depth - 1, Append(current_chunk, s[k]), chunks)
    ELSE IF s[k] = "," /\ paren_depth = 0
    THEN SplitFrom(s, k + 1, paren_depth, <<>>, Append(chunks, current_chunk))
    ELSE SplitFrom(s, k + 1, paren_depth, Append(current_chunk, s[k]), chunks)

split_stones_by_separator(stone_str) == SplitFrom(stone_str, 1, 0, <<>>, <<>>)

RECURSIVE LastNonSpace(_, _)
LastNonSpace(s, k) == IF k >= 1 /\ IsSpace(s[k]) THEN LastNonSpace(s, k - 1) ELSE k

\* str.strip()
Strip(s) == SubSeq(s, SkipSpaces(s, 1), LastNonSpace(s, Len(s)))

\* The loop of lines 78-94 from chunk n on.
RECURSIVE ParseChunks(_, _, _, _)
ParseChunks(stone_chunks, n, counter, stones) ==
    IF n > Len(stone_chunks) THEN stones
    ELSE LET chunk == Strip(stone_chunks[n])
             vectors == FindAll(chunk, 1)
         IN  IF chunk = <<>> THEN ParseChunks(stone_chunks, n + 1, counter, stones)
             ELSE IF vectors # <<>>
             THEN ParseChunks(stone_chunks, n + 1, counter + 1,
                              Append(stones, Stone(<<"K", counter>>, vectors)))
             ELSE ParseChunks(stone_chunks, n + 1, counter, stones)

parse_stones(stone_str) == ParseChunks(split_stones_by_separator(stone_str), 1, 1, <<>>)

\* The input strings: up to MaxPieces pieces, each a triple, a stray character
\* or a pair that is no triple.
MaxPieces == 3

Pieces ==
    { <<"(", "1", ",", "0", ",", "2", ")">>,
      <<"(", "-", "1", ",", " ", "0", ",", "1", ")">>,
      <<"(", "1", ",", "2", ")">>,
      <<",">>, <<" ">>, <<"(">>, <<")">> }

RECURSIVE Texts(_)
Texts(n) ==
    IF n = 0 THEN {<<>>}
    ELSE Texts(n - 1) \cup {t \o q : t \in Texts(n - 1), q \in Pieces}

-----------------------------------------------------------------------------
(* The input side, each function called on its own: _create_initial_state on
   lists of any length. *)

\* _create_initial_state is given 0..MaxPlaceRunes runes and 0..MaxPlaceStones stones.
MaxPlaceRunes == 17

MaxPlaceStones == 2

\* The variables of the search that the input side leaves alone.
InputIdle ==
    /\ current_score = 0
    /\ best_state_grid = EmptyGrid
    /\ best_stone_rotations = <<>>
    /\ best_score = 0
    /\ i = 0
    /\ cooled = 0
    /\ restart = 0
    /\ layout_ret = <<>>
    /\ best_overall_state = <<>>
    /\ best_overall_score = 0

InputIdleVars ==
    <<current_score, best_state_grid, best_stone_rotations, best_score, i, cooled,
      restart, layout_ret, best_overall_state, best_overall_score>>

\* The lists handed to _create_initial_state: n runes and m fresh stones.
InitPlace ==
    /\ pc = "place"
    /\ \E nr \in 0..MaxPlaceRunes, ns \in 0..MaxPlaceStones :
        /\ rheap = [ref \in {<<0, "list", n>> : n \in 1..nr} |-> Rune(<<"R", ref[3]>>, 3)]
        /\ sheap = [ref \in {<<0, "list", n>> : n \in 1..ns} |->
                        Stone(<<"K", ref[3]>>, << <<1, 0, 1>> >>)]
        /\ args = [runes |-> [n \in 1..nr |-> <<0, "list", n>>],
                   stones |-> [n \in 1..ns |-> <<0, "list", n>>]]
    /\ current_state = NoState
    /\ hist = [outcome |-> "lists", positions |-> <<>>]
    /\ cfg = [iterations |-> 0, num_restarts |-> 0]
    /\ InputIdle

\* _create_initial_state(runes, stones)
Place ==
    /\ pc = "place"
    /\ \E positions \in Shuffles, rots \in [1..Len(args.stones) -> 0..3] :
        LET made == create_initial_state(args.runes, args.stones, sheap, positions, rots)
        IN  /\ current_state' = made.state
            /\ sheap' = made.sheap
            /\ hist' = [outcome |-> "placed", positions |-> positions]
    /\ pc' = "placed"
    /\ UNCHANGED <<rheap, cfg, args, InputIdleVars>>

\* The fields of the SolverConfig dataclass (lines 18-23).
ConfigFields ==
    {"iterations", "initial_temperature", "cooling_rate", "min_temperature",
     "rotation_probability", "num_restarts"}

\* The keyword sets SolverConfig is called with: solver.py:101,
\* tests/test_solver.py:21, RunesOptimizer.py:50-53, and the presets of
\* optimizer_config.py:8-14 and benchmark_params.py:25-27.
ConfigCalls ==
    {{}, {"iterations"}, {"iterations", "num_restarts"},
     {"iterations", "num_restarts", "initial_temperature", "cooling_rate", "workers"}}

\* A caller is about to construct a SolverConfig.
InitConfig ==
    /\ pc = "config"
    /\ \E kw \in ConfigCalls : cfg = [keywords |-> kw]
    /\ rheap = <<>>
    /\ sheap = <<>>
    /\ args = [runes |-> <<>>, stones |-> <<>>]
    /\ current_state = NoState
    /\ hist = [outcome |-> "call", positions |-> <<>>]
    /\ InputIdle

\* SolverConfig(**keywords): the dataclass __init__ takes its fields as
\* keywords and raises TypeError on any other keyword.
Configure ==
    /\ pc = "config"
    /\ pc' = IF cfg.keywords \subseteq ConfigFields THEN "configured" ELSE "TypeError"
    /\ hist' = [hist EXCEPT !.outcome = "init"]
    /\ UNCHANGED <<rheap, sheap, cfg, args, current_state, InputIdleVars>>

\* A caller is about to parse a stone string.
InitParse ==
    /\ pc = "parse"
    /\ \E text \in Texts(MaxPieces) : args = [stone_str |-> text]
    /\ rheap = <<>>
    /\ sheap = <<>>
    /\ cfg = [iterations |-> 0, num_restarts |-> 0]
    /\ current_state = NoState
    /\ hist = [outcome |-> "call", stones |-> <<>>]
    /\ InputIdle

\* parse_stones(stone_str)
Parse ==
    /\ pc = "parse"
    /\ pc' = "parsed"
    /\ hist' = [outcome |-> "parsed", stones |-> parse_stones(args.stone_str)]
    /\ UNCHANGED <<rheap, sheap, cfg, args, current_state, InputIdleVars>>

InitInputs ==
    \/ InitPlace
    \/ InitConfig
    \/ InitParse

NextInputs ==
    \/ Place
    \/ Configure
    \/ Parse

SpecInputs == InitInputs /\ [][NextInputs]_vars

-----------------------------------------------------------------------------
(* Properties *)

\* The board the search works on, scored as it stands.
WorkScored == calculate_total_score(current_state, rheap, sheap)

\* The grid occupant's id.
ItemId(item, rh, sh) == IF item.kind = "Rune" THEN rh[item.ref].id ELSE sh[item.ref].id

\* The capped boost the rune with the id of `ref` receives in `grid`.
CappedBoostInGrid(grid, rh, sh, ref) ==
    LET hits == Hits(grid, sh)
        mine == {h \in hits : rh[grid[h.to].ref].id = rh[ref].id}
    IN  Min(SumOver(mine, [h \in mine |-> h.boost]), rh[ref].max_level)

\* C1: scoring the state solve_layout / solve_with_restarts returned gives the
\* score returned with it, and leaves on every rune of state.runes the capped
\* boost it receives in the returned grid (stated for the configurations with
\* iterations >= 0 and num_restarts >= 1).
C1_RescoreGivesReturnedScore ==
    /\ (pc = "fold" /\ cfg.iterations >= 0) =>
        calculate_total_score(layout_ret[1].state, rheap, sheap).score = layout_ret[1].score
    /\ (pc = "reported" /\ cfg.iterations >= 0) =>
        /\ hist.reported = best_overall_score
        /\ \A n \in DOMAIN best_overall_state[1].runes :
            LET ref == best_overall_state[1].runes[n]
            IN  rheap[ref].current_level =
                    CappedBoostInGrid(best_overall_state[1].grid, rheap, sheap, ref)

\* The tiers of the hierarchy formula, read off a scored rune heap.
FlagshipIndex(runes, rh) ==
    CHOOSE n \in DOMAIN runes :
        /\ rh[runes[n]].max_level = max_possible_level(runes, rh)
        /\ \A m \in DOMAIN runes :
            rh[runes[m]].max_level = max_possible_level(runes, rh) => n <= m

FlagshipLevel(runes, rh) == rh[runes[FlagshipIndex(runes, rh)]].current_level

TotalLevels(runes, rh) ==
    SumOver(DOMAIN runes, [n \in DOMAIN runes |-> rh[runes[n]].current_level])

MaxedCount(runes, rh) ==
    Cardinality({n \in DOMAIN runes :
                    /\ n # FlagshipIndex(runes, rh)
                    /\ rh[runes[n]].current_level = rh[runes[n]].max_level})

EvenCount(runes, rh) ==
    Cardinality({n \in DOMAIN runes :
                    /\ rh[runes[n]].current_level > 0
                    /\ rh[runes[n]].current_level % 2 = 0})

\* C2: for every board, the score is
\* 100 * flagship_level + total_levels + 0.1 * maxed_count + 0.01 * even_count
\* (both sides times 100 * Scale).
C2_HierarchyFormula ==
    pc = "search" =>
        LET runes == current_state.runes
            after == WorkScored.rheap
        IN  100 * WorkScored.score =
                Scale(runes, rheap)
                * (10000 * FlagshipLevel(runes, after) + 100 * TotalLevels(runes, after)
                   + 10 * MaxedCount(runes, after) + EvenCount(runes, after))

\* C3: of two boards over the same runes, the one whose flagship rune has the
\* strictly higher level has the strictly higher score.  The two boards are
\* the working board before and after one step of the search.
C3_FlagshipDominates ==
    [][(pc = "search" /\ pc' = "search"
        /\ FlagshipLevel(current_state.runes, WorkScored.rheap)'
            > FlagshipLevel(current_state.runes, WorkScored.rheap))
       => WorkScored.score' > WorkScored.score]_vars

\* C4: get_integer_score is the sum over state.runes of min(raw_score, max_level).
C4_IntegerScoreIsLevelSum ==
    pc = "search" =>
        get_integer_score(current_state, rheap, sheap) =
            SumOver(DOMAIN current_state.runes,
                    [n \in DOMAIN current_state.runes |->
                        LET r == WorkScored.rheap[current_state.runes[n]]
                        IN  Min(r.raw_score, r.max_level)])

\* C5: in every working state, for every outcome of _mutate_in_place (rotate,
\* swap, move, no-op), _revert_mutation with the undo tuple gives back the grid
\* and every stone's rotation.
C5_RevertRestores ==
    pc = "search" =>
        \A d \in MutationDraws(current_state) :
            LET m == mutate_in_place(current_state, sheap, d)
                back == revert_mutation(m.grid, m.sheap, m.undo)
            IN  back.grid = current_state.grid /\ back.sheap = sheap

\* A rejected move into an empty cell has been reverted.
C5_Witness == pc = "search" /\ hist.outcome = "reject" /\ hist.move

InputIds ==
    {InputRunes[n].id : n \in DOMAIN InputRunes}
    \cup {InputStones[n].id : n \in DOMAIN InputStones}

\* Every key is a cell of the 4x4 grid and every supplied entity is at exactly
\* one cell.
GridHoldsAll(grid) ==
    /\ DOMAIN grid \subseteq (0..(GRID_SIZE - 1)) \X (0..(GRID_SIZE - 1))
    /\ \A p \in DOMAIN grid : ItemId(grid[p], rheap, sheap) \in InputIds
    /\ \A id \in InputIds :
        Cardinality({p \in DOMAIN grid : ItemId(grid[p], rheap, sheap) = id}) = 1

\* C6: the working grid after the initial placement and after every step, the
\* best snapshot and the grid of the returned state hold every supplied rune
\* and stone at exactly one cell of the 4x4 grid.
C6_GridHoldsEveryEntityOnce ==
    /\ pc = "search" => GridHoldsAll(current_state.grid) /\ GridHoldsAll(best_state_grid)
    /\ pc = "fold" => GridHoldsAll(layout_ret[1].state.grid)
    /\ pc = "returned" => GridHoldsAll(best_overall_state[1].grid)

\* solve_layout has returned after a search whose last steps moved an entity.
C6_Witness == pc = "fold" /\ i = MaxIter /\ hist.move

\* C7: during the search the best score is the maximum of the initial score
\* and the accepted scores and is never below the current score; a step never
\* lowers it and changes it only to an accepted score greater than it; the
\* returned score is that maximum.
C7_BestIsMaxAccepted ==
    [][/\ pc' = "search" => best_score' = hist'.acc_max /\ best_score' >= current_score'
       /\ pc' = "fold" => layout_ret'[1].score = hist'.acc_max
       /\ (pc = "search" /\ pc' = "search") =>
            /\ best_score' >= best_score
            /\ best_score' # best_score =>
                /\ hist'.outcome = "accept"
                /\ current_score' > best_score
                /\ best_score' = current_score']_vars

\* An accepted step left the current score below the best score.
C7_Witness == pc = "search" /\ hist.outcome = "accept" /\ current_score < best_score

RECURSIVE MaxOfSeq(_, _)
MaxOfSeq(q, n) == IF n = 1 THEN q[1] ELSE Max(q[n], MaxOfSeq(q, n - 1))

\* The restart that made the objects of a state's runes list.
MadeBy(state) == state.runes[1][1]

\* C8: after N >= 1 restarts the kept pair is the pair of the earliest restart
\* whose score is the maximum of the N scores.
C8_KeepsEarliestBest ==
    (pc \in {"restarts", "returned"} /\ restart >= 1) =>
        LET top == MaxOfSeq(hist.scores, restart)
        IN  /\ Len(hist.scores) = restart
            /\ best_overall_score = top
            /\ hist.scores[MadeBy(best_overall_state[1])] = top
            /\ \A n \in 1..restart :
                hist.scores[n] = top => MadeBy(best_overall_state[1]) <= n

\* Two restarts tied on a positive score and the pair was returned.
C8_Witness ==
    /\ pc = "returned"
    /\ restart = 2
    /\ hist.scores[1] = hist.scores[2]
    /\ hist.scores[1] > 0

\* The caller's objects as they were handed in.
CallerUntouched ==
    /\ \A n \in DOMAIN InputRunes :
        rheap[CallerRunes[n]] = Rune(InputRunes[n].id, InputRunes[n].max_level)
    /\ \A n \in DOMAIN InputStones :
        /\ sheap[CallerStones[n]].rotation \in CallerRotations
        /\ sheap[CallerStones[n]].base_vectors = InputStones[n].base_vectors

\* C9: the caller's runes and stones are never changed; solve_layout is called
\* with entities at rotation 0 and levels 0; while the driver runs, a step that
\* keeps the kept state leaves every object it reaches as it was.
C9_RestartsAreIsolated ==
    [][/\ pc' \in {"solve", "search", "fold", "restarts", "returned"} => CallerUntouched'
       /\ pc' = "solve" =>
            /\ \A n \in DOMAIN args'.runes :
                /\ rheap'[args'.runes[n]].current_level = 0
                /\ rheap'[args'.runes[n]].raw_score = 0
            /\ \A n \in DOMAIN args'.stones : sheap'[args'.stones[n]].rotation = 0
       /\ (best_overall_state # <<>> /\ best_overall_state' = best_overall_state
           /\ pc' # "reported") =>
            /\ \A ref \in LiveRunes(best_overall_state) : rheap'[ref] = rheap[ref]
            /\ \A ref \in LiveStones(best_overall_state) : sheap'[ref] = sheap[ref]]_vars

\* A second restart has searched while the first restart's state is kept.
C9_Witness ==
    /\ pc = "search"
    /\ restart = 1
    /\ i >= 1
    /\ hist.mtype = "rotate"
    /\ best_overall_state # <<>>

\* C10: with num_restarts < 1 or iterations < 0 no (state, score) pair is
\* returned: solve_layout returns none and solve_with_restarts returns none.
C10_InvalidConfigFailsFast ==
    (cfg.num_restarts < 1 \/ cfg.iterations < 0) =>
        /\ layout_ret = <<>>
        /\ pc \notin {"returned", "reported"}

\* The draws that take the swap/move branch of _mutate_in_place.
SwapDraws(state) ==
    {d \in MutationDraws(state) : ~(d.rotate /\ Len(state.stones) > 0)}

\* C11: in the swap/move branch the mutation is reported as "none" exactly
\* when both chosen cells are empty, and it then leaves the grid and every
\* stone's rotation as they were; an iteration whose mutation was a no-op
\* leaves the working state, every rune's raw_score and current_level, every
\* rotation, current_score, best_score and the best snapshot unchanged.  The
\* draws are those of the state such an iteration starts in.
C11_NoOpChangesNothing ==
    [][(pc = "search" /\ i' = i + 1 /\ hist'.mtype = "none") =>
        /\ \A d \in SwapDraws(current_state) :
            LET m == mutate_in_place(current_state, sheap, d)
            IN  /\ (m.undo.mtype = "none")
                    <=> (d.p1 \notin DOMAIN current_state.grid
                         /\ d.p2 \notin DOMAIN current_state.grid)
                /\ m.undo.mtype = "none" =>
                    m.grid = current_state.grid /\ m.sheap = sheap
        /\ UNCHANGED <<current_state, rheap, sheap, current_score, best_score,
                       best_state_grid, best_stone_rotations>>]_vars

\* A no-op iteration ran on a board whose scoring would have changed the
\* runes' fields (they still show the board rejected before).
C11_Witness ==
    /\ pc = "search"
    /\ hist.outcome = "none"
    /\ WorkScored.rheap # rheap

\* C12: after k iterations of the loop, no-op iterations included, exactly k
\* cooling steps (lines 135-137) have been applied.
C12_EveryIterationCools ==
    pc = "search" => cooled = i

\* The offset (dx, dy) after r quarter turns, written out for r = 0, 1, 2, 3.
TurnedOffset(dx, dy, r) ==
    CASE r = 0 -> <<dx, dy>>
      [] r = 1 -> <<dy, -dx>>
      [] r = 2 -> <<-dx, -dy>>
      [] r = 3 -> <<-dy, dx>>

\* The pairs (stone cell, vector index) of `grid` whose stone position plus
\* turned offset is the cell p.
PairsAt(grid, sh, p) ==
    LET all == UNION {{<<q, n>> : n \in DOMAIN sh[grid[q].ref].base_vectors} :
                      q \in stone_positions(grid)}
    IN  {pr \in all :
            LET st == sh[grid[pr[1]].ref]
                v == st.base_vectors[pr[2]]
                o == TurnedOffset(v[1], v[2], st.rotation)
            IN  <<pr[1][1] + o[1], pr[1][2] + o[2]>> = p}

\* The sum of the boosts of those pairs.
BoostAt(grid, sh, p) ==
    LET prs == PairsAt(grid, sh, p)
    IN  SumOver(prs, [pr \in prs |-> sh[grid[pr[1]].ref].base_vectors[pr[2]][3]])

\* The boost a rune object receives on the board: that of its cell, 0 when it
\* is on no cell.
BoostOf(grid, sh, ref) ==
    LET at == {p \in rune_positions(grid) : grid[p].ref = ref}
    IN  SumOver(at, [p \in at |-> BoostAt(grid, sh, p)])

\* C13: after calculate_total_score every rune of state.runes has
\* current_level = min(raw_score, max_level); a rune whose accumulated boost
\* is above max_level reports max_level while raw_score keeps the whole boost.
C13_LevelIsCappedRawScore ==
    (pc = "board" /\ hist.outcome = "score") =>
        \A n \in DOMAIN current_state.runes :
            LET r == rheap[current_state.runes[n]]
                boost == BoostOf(current_state.grid, sheap, current_state.runes[n])
            IN  /\ r.current_level <= r.raw_score
                /\ r.current_level <= r.max_level
                /\ r.current_level \in {r.raw_score, r.max_level}
                /\ boost > r.max_level =>
                    r.current_level = r.max_level /\ r.raw_score = boost

\* A scored board on which a rune received more boost than its max_level.
C13_Witness ==
    /\ pc = "board"
    /\ hist.outcome = "score"
    /\ \E n \in DOMAIN current_state.runes :
        LET r == rheap[current_state.runes[n]]
        IN  r.raw_score > r.max_level /\ r.current_level = r.max_level

\* The raw scores calculate_total_score leaves on `state` are the boost sums.
RawIsBoostSum(state) ==
    LET after == calculate_total_score(state, rheap, sheap).rheap
    IN  /\ \A p \in rune_positions(state.grid) :
            after[state.grid[p].ref].raw_score = BoostAt(state.grid, sheap, p)
        /\ \A n \in DOMAIN state.runes :
            (\A p \in rune_positions(state.grid) : state.grid[p].ref # state.runes[n])
                => after[state.runes[n]].raw_score = 0

\* C14: after calculate_total_score the raw_score of each rune on the grid is
\* the sum of the boosts of the pairs (placed stone, active vector) that point
\* at its cell, and a rune on no cell has raw_score 0.  Stated of the working
\* board of the search and of the board solve_with_restarts returned.
C14_RawScoreIsBoostSum ==
    /\ pc = "search" => RawIsBoostSum(current_state)
    /\ (pc = "returned" /\ cfg.iterations >= 0) => RawIsBoostSum(best_overall_state[1])

\* The rune objects a board reaches, through state.runes or through the grid.
BoardRunesOf(state) ==
    Range(state.runes) \cup {state.grid[p].ref : p \in rune_positions(state.grid)}

\* A second call of calculate_total_score gives the first call's score and
\* leaves every rune of the board as the first call left it.
ScoredTwiceSame(state) ==
    LET first == calculate_total_score(state, rheap, sheap)
        second == calculate_total_score(state, first.rheap, sheap)
    IN  /\ second.score = first.score
        /\ \A ref \in BoardRunesOf(state) :
            /\ second.rheap[ref] = first.rheap[ref]
            /\ first.rheap[ref].max_level = rheap[ref].max_level

\* C16: calling calculate_total_score twice in succession on a board returns
\* the same score and leaves raw_score and current_level of every rune, reached
\* through state.runes or through the grid, the same after the second call as
\* after the first.  Stated of the working board of the search and of the
\* board solve_with_restarts returned.
C16_ScoringIsIdempotent ==
    /\ pc = "search" => ScoredTwiceSame(current_state)
    /\ (pc = "returned" /\ cfg.iterations >= 0) => ScoredTwiceSame(best_overall_state[1])

\* The active vectors of `stone` if its rotation were r, by the written-out turns.
TurnedVectors(stone, r) ==
    [k \in DOMAIN stone.base_vectors |->
        LET v == stone.base_vectors[k]
            o == TurnedOffset(v[1], v[2], r)
        IN  <<o[1], o[2], v[3]>>]

\* C15: for every stone and every rotation r in 0..3, get_active_vectors
\* gives, in base-vector order, each base offset turned by (dx,dy) -> (dy,-dx)
\* r times with the boost unchanged, and leaves the stone as it is; a stone
\* turned t times by the rotate mutation has rotation t mod 4, and after four
\* turns its active vectors are those it started with.
C15_RotationTurnsVectors ==
    pc = "board" =>
        \A n \in DOMAIN current_state.stones :
            LET s == sheap[current_state.stones[n]]
                t == hist.turns[n]
            IN  /\ s.rotation = t % 4
                /\ s.base_vectors = BoardStones[n].base_vectors
                /\ \A r \in 0..3 :
                    get_active_vectors([s EXCEPT !.rotation = r]) = TurnedVectors(s, r)
                /\ (t = 4 => get_active_vectors(s) = hist.start[n])

\* A stone has been turned four times.
C15_Witness ==
    /\ pc = "board"
    /\ hist.outcome = "rotate"
    /\ \E n \in DOMAIN current_state.stones : hist.turns[n] = 4

\* C17: calculate_total_score returns 0, and no error, for a board with an
\* empty grid, for a board with zero runes and for a board with zero stones.
C17_DegenerateBoardsScoreZero ==
    /\ (pc = "board"
        /\ (current_state.grid = EmptyGrid \/ current_state.runes = <<>>
            \/ current_state.stones = <<>>))
       => calculate_total_score(current_state, rheap, sheap).score = 0
    /\ (pc = "board" /\ hist.outcome = "score"
        /\ (current_state.grid = EmptyGrid \/ current_state.runes = <<>>
            \/ current_state.stones = <<>>))
       => hist.reported = 0

\* A board with runes and stones but an empty grid has been scored.
C17_Witness ==
    /\ pc = "board"
    /\ hist.outcome = "score"
    /\ current_state.grid = EmptyGrid
    /\ current_state.runes # <<>>
    /\ current_state.stones # <<>>
    /\ hist.reported = 0

\* Item n of list(runes) + list(stones).
PlaceItem(n) ==
    IF n <= Len(args.runes) THEN RuneItem(args.runes[n])
    ELSE StoneItem(args.stones[n - Len(args.runes)])

\* C18: _create_initial_state puts exactly min(16, |runes| + |stones|)
\* entities on the grid, each at its own cell of the 4x4 grid, runes first and
\* then stones in input order; the entities beyond the 16th are on no cell;
\* every placed stone has a rotation in 0..3.
C18_PlacesFirstSixteen ==
    pc = "placed" =>
        LET grid == current_state.grid
            total == Len(args.runes) + Len(args.stones)
            cells == GRID_SIZE * GRID_SIZE
        IN  /\ DOMAIN grid \subseteq (0..(GRID_SIZE - 1)) \X (0..(GRID_SIZE - 1))
            /\ Cardinality(DOMAIN grid) = Min(cells, total)
            /\ \A n \in 1..total :
                LET at == {p \in DOMAIN grid : grid[p] = PlaceItem(n)}
                IN  IF n <= cells THEN at = {hist.positions[n]} ELSE at = {}
            /\ \A p \in stone_positions(grid) : sheap[grid[p].ref].rotation \in 0..3
            /\ current_state.runes = args.runes
            /\ current_state.stones = args.stones

\* More entities than cells were placed: the grid is full and a stone is left off.
C18_Witness ==
    /\ pc = "placed"
    /\ Len(args.runes) + Len(args.stones) > GRID_SIZE * GRID_SIZE
    /\ Cardinality(DOMAIN current_state.grid) = GRID_SIZE * GRID_SIZE
    /\ \E n \in DOMAIN args.stones :
        \A p \in DOMAIN current_state.grid : current_state.grid[p] # StoneItem(args.stones[n])
    /\ stone_positions(current_state.grid) # {}

\* C19: SolverConfig accepts the workers option next to its other options, as
\* the presets and the benchmark construct it: a construction that passes
\* workers gives a configuration, not an error.
C19_ConfigAcceptsWorkers ==
    (pc \in {"configured", "TypeError"} /\ "workers" \in cfg.keywords)
        => pc = "configured"

RECURSIVE AllVectors(_, _)
AllVectors(stones, n) ==
    IF n = 0 THEN <<>> ELSE AllVectors(stones, n - 1) \o stones[n].base_vectors

\* C20: commas inside a (dx, dy, boost) triple never split, so every triple
\* of the input, in order, is a base vector of a stone; there is one stone per
\* chunk that holds a triple, each with its chunk's triples in order, and the
\* stones are labelled K1, K2, ... in input order.
C20_ParseKeepsTriplesWhole ==
    pc = "parsed" =>
        LET stones == hist.stones
            chunks == split_stones_by_separator(args.stone_str)
            full == SelectSeq(chunks, LAMBDA c : FindAll(c, 1) # <<>>)
        IN  /\ AllVectors(stones, Len(stones)) = FindAll(args.stone_str, 1)
            /\ Len(stones) = Len(full)
            /\ \A n \in DOMAIN stones :
                /\ stones[n].id = <<"K", n>>
                /\ stones[n].base_vectors = FindAll(full[n], 1)

\* C21: for iterations >= 0 the loop of solve_layout makes exactly
\* `iterations` mutation attempts: every attempt, a no-op included, uses one
\* unit of the budget, the loop is never left before the budget is used up nor
\* continued beyond it, and in every state of the loop either the budget is
\* used up or the next attempt has a draw to make, so solve_layout returns
\* after `iterations` attempts.  The resampling of lines 63-64 is taken to end
\* with two different cells.
C21_RunsExactlyTheBudget ==
    [][/\ (pc = "search" /\ cfg.iterations >= 0) =>
            /\ i <= cfg.iterations
            /\ i < cfg.iterations => MutationDraws(current_state) # {}
       /\ (pc = "search" /\ pc' = "search") => i' = i + 1
       /\ (pc = "search" /\ cfg.iterations >= 0) =>
            (pc' = "fold" <=> i = cfg.iterations)
       /\ (pc = "search" /\ pc' = "fold") => i' = i]_vars

\* solve_layout returned after a full budget whose last attempt was a no-op.
C21_Witness ==
    /\ pc = "fold"
    /\ cfg.iterations = MaxIter
    /\ i = cfg.iterations
    /\ hist.mtype = "none"

\* C22: at the end of every iteration of the loop of solve_layout (after an
\* acceptance, after a rejection and its revert, after a no-op), and before the
\* first one, current_score is the value calculate_total_score returns for the
\* working state as it stands.
C22_CurrentScoreIsWorkingScore ==
    pc = "search" => current_score = WorkScored.score

\* A rejected rotation has been reverted on a board that scores above zero.
C22_Witness ==
    /\ pc = "search"
    /\ hist.outcome = "reject"
    /\ hist.mtype = "rotate"
    /\ current_score > 0

\* Every occupant of the state's grid is one of the objects of state.runes
\* (a rune) or of state.stones (a stone).
GridSharesLists(state) ==
    \A p \in DOMAIN state.grid :
        IF state.grid[p].kind = "Rune"
        THEN state.grid[p].ref \in Range(state.runes)
        ELSE state.grid[p].ref \in Range(state.stones)

\* C23: in the working state at each iteration and in the state solve_layout
\* returns, every rune or stone in a grid cell is the same object as an
\* element of state.runes or state.stones.
C23_GridSharesLists ==
    /\ pc = "search" => GridSharesLists(current_state)
    /\ (pc = "fold" /\ cfg.iterations >= 0) => GridSharesLists(layout_ret[1].state)

\* What a grid shows: at each occupied cell the kind of the occupant and the
\* field values of the object there.
GridView(grid, rh, sh) ==
    [p \in DOMAIN grid |->
        [kind |-> grid[p].kind,
         obj |-> IF grid[p].kind = "Rune" THEN rh[grid[p].ref] ELSE sh[grid[p].ref]]]

\* The snapshot is the working state as it stands, with its score.
SnapshotIsWorkingState ==
    /\ best_score = current_score
    /\ GridView(best_state_grid, rheap, sheap) = GridView(current_state.grid, rheap, sheap)
    /\ best_stone_rotations = stone_rotations(current_state.stones, sheap)

\* The step leaves the snapshot as it was: the same cells, the same objects with
\* the same field values, the same recorded rotations, the same best score.
SnapshotKept ==
    /\ best_score' = best_score
    /\ best_state_grid' = best_state_grid
    /\ GridView(best_state_grid, rheap, sheap)' = GridView(best_state_grid, rheap, sheap)
    /\ best_stone_rotations' = best_stone_rotations

\* C24: a snapshot is taken of the working state at the start and whenever an
\* accepted score exceeds the best one, and only then; every other step of the
\* loop (no-op, acceptance without a new best, rejection with its revert)
\* leaves the recorded grid and the recorded rotations as they were; the
\* returned state has the recorded grid, unchanged, and its stones carry the
\* recorded rotations.  So the returned grid and rotations are those of the
\* working state when the returned best score was first reached.
C24_SnapshotIsKept ==
    [][/\ (pc = "solve" /\ pc' = "search") => SnapshotIsWorkingState'
       /\ (pc = "search" /\ pc' = "search") =>
            /\ current_score' <= best_score'
            /\ IF best_score' # best_score
               THEN best_score' > best_score /\ SnapshotIsWorkingState'
               ELSE SnapshotKept
       /\ (pc = "search" /\ pc' = "fold") =>
            /\ SnapshotKept
            /\ layout_ret'[1].score = best_score
            /\ layout_ret'[1].state.grid = best_state_grid
            /\ stone_rotations(layout_ret'[1].state.stones, sheap') = best_stone_rotations
            /\ \A p \in stone_positions(best_state_grid) :
                    sheap'[best_state_grid[p].ref].rotation =
                        best_stone_rotations[sheap'[best_state_grid[p].ref].id]]_vars

\* solve_layout returned the snapshot after the working state had moved on to
\* a different, lower-scoring board.
C24_Witness ==
    /\ pc = "fold"
    /\ cfg.iterations = MaxIter
    /\ current_score < best_score
    /\ GridView(current_state.grid, rheap, sheap) # GridView(layout_ret[1].state.grid, rheap, sheap)

====
